---- MODULE Spec2Model ----
(***************************************************************************)
(* pycalc (src/pycalc.py): a Sublime Text plugin that evaluates the        *)
(* current line or selection in one persistent InteractiveConsole.         *)
(*                                                                         *)
(* Three execution contexts share the two queues:                          *)
(*   - the editor's main thread, which runs the commands;                  *)
(*   - the worker thread (worker), which evaluates snippets;               *)
(*   - the editor's async thread, which runs the print_result callbacks    *)
(*     registered with set_timeout_async, one callback at a time.          *)
(* A handler is split only where it blocks or where another context can    *)
(* observe its effects (Queue.get, Queue.put, the modal dialog, the        *)
(* try/finally boundary of a command).                                     *)
(***************************************************************************)
EXTENDS Integers, Sequences, FiniteSets, TLC

(***************************************************************************)
(* Bounds of the model.                                                    *)
(***************************************************************************)
\* number of PycalcCommand / PycalcSelectedCommand invocations explored
MaxCmd == 2
\* queue_output = Queue(maxsize=256) (line 14); explored with a scaled-down
\* capacity, every statement about the capacity is made relative to MaxSize
MaxSize == 2
\* cap of the history counter of consecutive pump timeouts
MaxTimeouts == 2
\* number of command invocations explored under fairness
MaxCmdFair == 1

(***************************************************************************)
(* Program constants.                                                      *)
(***************************************************************************)
\* queue_output.get(timeout=30)
PumpTimeout == 30
\* a read timeout longer than the pump's wait
WorkerTimeoutSlow == PumpTimeout + 1
\* queue_in.get(timeout=3)
WorkerTimeout == 3

(***************************************************************************)
(* Source texts the user evaluates (the text of the line up to the cursor, *)
(* or of the selected lines).                                              *)
(***************************************************************************)
CloseStdout == "__import__('sys').stdout.close()"
Codes == {"x=1", "x", "if x:", "help()", "raise SystemExit", CloseStdout}
\* one text that evaluates normally and one whose evaluation faults
QueueCodes == {"help()", CloseStdout}
TimedCodes == {"help()"}
\* an expression that prints its own text, the same followed by a space,
\* and a call that prints something else
EchoCodes == {"1", "1 ", "help()"}
\* a session in which only selected lines (block mode) define a name, and
\* lines of both modes use it
SessionLines == {"x"}
SessionBlocks == {"x=1", "x"}
\* a line that leaves a bracket open, the line that closes it, and a line
\* whose exception leaves push
PendingCodes == {"x=(", "1)", "raise SystemExit"}
\* the empty text (the cursor at the start of its line) and texts that are
\* a flag character themselves
TagCodes == {"", "0", "1"}
\* the empty text and a text whose evaluation faults
PlaceholderCodes == {"", CloseStdout}
\* one text: what the pump does with a result does not depend on the text
PumpCodes == {"help()"}

VARIABLES
    thread,                 \* global thread: FALSE is None
    queue_input,            \* global queue_input (unbounded Queue)
    queue_output,           \* global queue_output (Queue(maxsize))
    print_result_running,   \* global print_result_running
    enabled,                \* the "enabled" setting
    worker_pc,              \* where the worker thread is
    line,                   \* worker's local: the snippet being evaluated
    result,                 \* worker's local: the result being published
    repl,                   \* the InteractiveConsole of the worker
    scheduled,              \* print_result callbacks registered, not yet run
    pump_pc,                \* where the async thread is inside print_result
    queue_count,            \* print_result's local queue_count
    main_pc,                \* where the main thread is inside a command
    code,                   \* the running command's local code
    main_id,                \* history: snippet submitted by the running command
    view,                   \* characters inserted into the view, in order
    panel,                  \* messages shown in the output panel, in order
    exited,                 \* history: sys.exit() was called by a pump
    started,                \* history: number of Thread.start() calls
    last_error,             \* history: the last evaluation raised an error
    nsub,                   \* history: number of snippets submitted
    ncmd,                   \* history: number of command invocations
    timeouts,               \* history: pump timeouts since the last dequeue
    evaluated,              \* history: ids of snippets, in evaluation order
    delivered,              \* history: ids of results, in pump dequeue order
    wtimer,                 \* time the worker has waited in queue_in.get
    ptimer,                 \* time the pump has waited in queue_output.get
    sys_streams,            \* what sys.stdout and sys.stderr are bound to
    after_yes               \* history: the running command began after
                            \* a pump had called sys.exit()

vars == <<thread, queue_input, queue_output, print_result_running, enabled,
          worker_pc, line, result, repl, scheduled, pump_pc, queue_count,
          main_pc, code, main_id, view, panel, exited, started, last_error,
          nsub, ncmd, timeouts, evaluated, delivered, wtimer, ptimer,
          sys_streams, after_yes>>

(***************************************************************************)
(* Strings.                                                                *)
(***************************************************************************)
Whitespace == {" ", "\t", "\n", "\r"}

RECURSIVE lstrip(_)
lstrip(s) ==
    IF Len(s) > 0 /\ SubSeq(s, 1, 1) \in Whitespace
    THEN lstrip(SubSeq(s, 2, Len(s)))
    ELSE s

RECURSIVE rstrip(_)
rstrip(s) ==
    IF Len(s) > 0 /\ SubSeq(s, Len(s), Len(s)) \in Whitespace
    THEN rstrip(SubSeq(s, 1, Len(s) - 1))
    ELSE s

\* str.strip()
strip(s) == rstrip(lstrip(s))

\* str.endswith("\n")
EndsWithNewline(s) == Len(s) > 0 /\ SubSeq(s, Len(s), Len(s)) = "\n"

(***************************************************************************)
(* The interpreter session: code.InteractiveConsole as pycalc uses it.     *)
(* buffer is the console's list of pending lines, locals the names bound   *)
(* in its namespace.                                                       *)
(***************************************************************************)
\* repl = InteractiveConsole(); repl.runcode(help_func)
NewConsole == [buffer |-> <<>>, locals |-> {"__help__", "help"}]

\* what __help__() prints
HelpText ==
    "Welcome to Python 3.8's help utility!\n\n" \o
    "If this is your first time using Python, " \o
    "you should definitely check out\n" \o
    "the tutorial on the internet at https://docs.python.org/3.8/tutorial/.\n"

NoOutput(names) ==
    [stdout |-> "", stderr |-> "", raised |-> FALSE, closed |-> FALSE,
     error |-> FALSE, locals |-> names]

\* exec of one compiled statement in the namespace: single is TRUE when the
\* statement was compiled in "single" mode (an expression statement prints
\* its value), FALSE in "exec" mode.  error: the statement raised; raised:
\* it raised SystemExit, which leaves runcode; every other exception is
\* printed to sys.stderr by showtraceback.  closed: it closed sys.stdout.
ExecStmt(stmt, names, single) ==
    CASE stmt = "x=1" \/ stmt = "x=(\n1)" ->
           [NoOutput(names) EXCEPT !.locals = names \cup {"x"}]
      [] stmt = "x" ->
           IF "x" \in names
           THEN [NoOutput(names) EXCEPT !.stdout = IF single THEN "1\n" ELSE ""]
           ELSE [NoOutput(names) EXCEPT
                    !.stderr = "NameError: name 'x' is not defined\n",
                    !.error = TRUE]
      [] stmt = "help()" ->
           IF "help" \in names
           THEN [NoOutput(names) EXCEPT !.stdout = HelpText]
           ELSE [NoOutput(names) EXCEPT
                    !.stderr = "NameError: name 'help' is not defined\n",
                    !.error = TRUE]
      [] stmt = "1" ->
           [NoOutput(names) EXCEPT !.stdout = IF single THEN "1\n" ELSE ""]
      [] stmt = "0" ->
           [NoOutput(names) EXCEPT !.stdout = IF single THEN "0\n" ELSE ""]
      [] stmt = "" ->
           NoOutput(names)
      [] stmt = "raise SystemExit" ->
           [NoOutput(names) EXCEPT !.raised = TRUE, !.error = TRUE]
      [] stmt = CloseStdout ->
           [NoOutput(names) EXCEPT !.closed = TRUE]
      [] OTHER ->
           [NoOutput(names) EXCEPT !.stderr = "SyntaxError: invalid syntax\n",
                                   !.error = TRUE]

\* White space after the statement is not part of it.  (The sets of one
\* element here and below bind a name to a value that is computed once.)
Exec(text, names, single) ==
    CHOOSE e \in {ExecStmt(stmt, names, single) : stmt \in {rstrip(text)}} :
        TRUE

\* a statement that opens a block and needs more lines
IsOpener(stmt) == stmt = "if x:"

\* a line that opens a bracket and needs the line that closes it
IsOpen(stmt) == stmt = "x=("

AllBlank(buf, from) == \A i \in from..Len(buf) : strip(buf[i]) = ""

\* "\n".join(buffer)
RECURSIVE Join(_)
Join(buf) ==
    IF Len(buf) = 0 THEN ""
    ELSE IF Len(buf) = 1 THEN buf[1]
    ELSE buf[1] \o "\n" \o Join(Tail(buf))

\* codeop's compile of "\n".join(buffer) in "single" mode
CompileSingle(buf) ==
    CASE IsOpener(buf[1]) ->
           IF AllBlank(buf, 2) THEN "incomplete" ELSE "error"
      [] IsOpen(buf[1]) ->
           IF AllBlank(buf, 2) THEN "incomplete"
           ELSE IF rstrip(Join(buf)) = "x=(\n1)" THEN "ok" ELSE "error"
      [] OTHER ->
           IF AllBlank(buf, 2) THEN "ok" ELSE "error"

\* a reset that gives the session a new namespace as well
resetbuffer_locals(console) == NewConsole

\* InteractiveConsole.resetbuffer
resetbuffer(console) == [console EXCEPT !.buffer = <<>>]

\* InteractiveConsole.runcode(text) with text a string: compiled in "exec"
\* mode and executed; an opener alone does not compile.
runcode(console, text) ==
    CHOOSE r \in
        {[console |-> [console EXCEPT !.locals = e.locals],
          stdout |-> e.stdout, stderr |-> e.stderr,
          raised |-> e.raised, closed |-> e.closed, error |-> e.error] :
         e \in {IF IsOpener(text)
                THEN [NoOutput(console.locals) EXCEPT
                         !.stderr =
                             "IndentationError: expected an indented block\n",
                         !.error = TRUE]
                ELSE Exec(text, console.locals, FALSE)}} :
        TRUE

\* InteractiveConsole.runsource on the lines of buf, c the outcome of the
\* compilation: more input is needed, a syntax error is reported, or the
\* code runs; the buffer is reset unless more input is needed -- and
\* unless runsource raised, which skips the reset.
runsource(console, buf, c) ==
    CASE c = "incomplete" ->
           [console |-> [console EXCEPT !.buffer = buf],
            stdout |-> "", stderr |-> "", raised |-> FALSE, closed |-> FALSE,
            error |-> FALSE]
      [] c = "error" ->
           [console |-> resetbuffer(console),
            stdout |-> "",
            stderr |-> "SyntaxError: invalid syntax\n",
            raised |-> FALSE, closed |-> FALSE, error |-> TRUE]
      [] OTHER ->
           CHOOSE r \in
               {[console |-> [buffer |-> IF e.raised THEN buf ELSE <<>>,
                              locals |-> e.locals],
                 stdout |-> e.stdout, stderr |-> e.stderr,
                 raised |-> e.raised, closed |-> e.closed,
                 error |-> e.error] :
                e \in {Exec(Join(buf), console.locals, TRUE)}} :
               TRUE

\* InteractiveConsole.push(text): append to the buffer, compile the whole
\* buffer, run it when complete.
push(console, text) ==
    CHOOSE r \in {runsource(console, buf, CompileSingle(buf)) :
                  buf \in {Append(console.buffer, text)}} :
        TRUE

(***************************************************************************)
(* Results.  id is history: the snippet the result was computed for, 0 for *)
(* a placeholder published on a read timeout.  empty is the dict {}.       *)
(***************************************************************************)
EmptyResult(id) == [id |-> id, empty |-> TRUE, stdout |-> "", stderr |-> ""]

\* the with block without line 68: block mode keeps the pending lines
capture_unreset(console, text) ==
    LET multiline == SubSeq(text, 1, 1)
        src == SubSeq(text, 2, Len(text))
    IN CHOOSE c \in
           {[r EXCEPT !.stderr = IF r.raised THEN r.stderr \o "SystemExit()"
                                            ELSE r.stderr] :
            r \in {IF multiline = "1"
                   THEN runcode(console, src)
                   ELSE push(console, src)}} :
           TRUE

\* the with block of interact on a non-empty line: the flag and the source
\* are split, the source is evaluated, and what it wrote is captured;
\* except BaseException adds the repr of what left runcode or push
capture(console, text) ==
    LET multiline == SubSeq(text, 1, 1)
        src == SubSeq(text, 2, Len(text))
    IN CHOOSE c \in
           {[r EXCEPT !.stderr = IF r.raised THEN r.stderr \o "SystemExit()"
                                            ELSE r.stderr] :
            r \in {IF multiline = "1"
                   THEN runcode(resetbuffer(console), src)
                   ELSE push(console, src)}} :
           TRUE

\* interact that tests the text behind the flag: "if not line[1:]"
interact_blank(console, id, text) ==
    IF SubSeq(text, 2, Len(text)) = ""
    THEN [escaped |-> FALSE, error |-> FALSE, result |-> EmptyResult(id),
          console |-> console]
    ELSE CHOOSE out \in
             {LET src == SubSeq(text, 2, Len(text))
                  buffer == IF r.stdout = strip(src) \o "\n"
                            THEN ""
                            ELSE r.stdout
              IN [escaped |-> r.closed,
                  error |-> r.error,
                  result |-> [id |-> id, empty |-> FALSE,
                              stdout |-> buffer, stderr |-> r.stderr],
                  console |-> r.console] :
              r \in {capture(console, text)}} :
             TRUE

\* interact without lines 76-77: the captured stdout is reported as it is
interact_unsuppressed(console, id, text) ==
    IF text = ""
    THEN [escaped |-> FALSE, error |-> FALSE, result |-> EmptyResult(id),
          console |-> console]
    ELSE CHOOSE out \in
             {[escaped |-> r.closed,
               error |-> r.error,
               result |-> [id |-> id, empty |-> FALSE,
                           stdout |-> r.stdout, stderr |-> r.stderr],
               console |-> r.console] :
              r \in {capture(console, text)}} :
             TRUE

\* interact(repl, line).  escaped: an Exception left interact (getvalue on
\* the stream the snippet closed raises ValueError).
interact(console, id, text) ==
    IF text = ""
    THEN [escaped |-> FALSE, error |-> FALSE, result |-> EmptyResult(id),
          console |-> console]
    ELSE CHOOSE out \in
             {LET src == SubSeq(text, 2, Len(text))
                  buffer == IF r.stdout = strip(src) \o "\n"
                            THEN ""
                            ELSE r.stdout
              IN [escaped |-> r.closed,
                  error |-> r.error,
                  result |-> [id |-> id, empty |-> FALSE,
                              stdout |-> buffer, stderr |-> r.stderr],
                  console |-> r.console] :
              r \in {capture(console, text)}} :
             TRUE

(***************************************************************************)
(* The process-wide streams.  Original: sys.stdout and sys.stderr as the   *)
(* editor set them up; Captured: the two StringIO buffers of interact.     *)
(***************************************************************************)
Original == [stdout |-> "original", stderr |-> "original"]

\* with redirect_stdout(stdout), redirect_stderr(stderr): entered
Captured == [stdout |-> "StringIO", stderr |-> "StringIO"]

\* the streams while interact(repl, line) runs: "if not line: return {}"
\* comes before the with statement
redirect(streams, text) == IF text = "" THEN streams ELSE Captured

\* the with statement left, normally or by an exception: the targets
\* saved on entry are put back
restore(streams) == Original

(***************************************************************************)
(* Initial state: the module has just been loaded.                         *)
(***************************************************************************)
Init ==
    /\ thread = FALSE
    /\ queue_input = <<>>
    /\ queue_output = <<>>
    /\ print_result_running = FALSE
    /\ enabled \in BOOLEAN
    /\ worker_pc = "none"
    /\ line = [id |-> 0, text |-> "", src |-> "", multiline |-> FALSE]
    /\ result = EmptyResult(0)
    /\ repl = NewConsole
    /\ scheduled = 0
    /\ pump_pc = "idle"
    /\ queue_count = 0
    /\ main_pc = "idle"
    /\ code = ""
    /\ main_id = 0
    /\ view = <<>>
    /\ panel = <<>>
    /\ exited = FALSE
    /\ started = 0
    /\ last_error = FALSE
    /\ nsub = 0
    /\ ncmd = 0
    /\ timeouts = 0
    /\ evaluated = <<>>
    /\ delivered = <<>>
    /\ wtimer = 0
    /\ ptimer = 0
    /\ sys_streams = Original
    /\ after_yes = FALSE

(***************************************************************************)
(* Main thread: the commands.                                              *)
(***************************************************************************)
\* init_worker() without its "if thread: return"
init_worker_unguarded ==
    /\ thread' = TRUE
    /\ worker_pc' = "get"
    /\ repl' = NewConsole
    /\ wtimer' = 0
    /\ started' = started + 1

\* init_worker(): start the worker thread once; the thread creates the
\* console and enters its loop
init_worker ==
    /\ thread' = TRUE
    /\ IF thread
       THEN UNCHANGED <<worker_pc, repl, wtimer, started>>
       ELSE /\ worker_pc' = "get"
            /\ repl' = NewConsole
            /\ wtimer' = 0
            /\ started' = started + 1

\* init_print_result(): returns the number of callbacks it registers
init_print_result ==
    /\ print_result_running' = TRUE
    /\ scheduled' = IF print_result_running THEN scheduled ELSE scheduled + 1

\* a snippet that carries no flag in line mode
Snippet_unflagged(text, multiline) == IF multiline THEN "1" \o text ELSE text

\* execute_python_code(code, multiline): the snippet put on queue_input
Snippet(text, multiline) == IF multiline THEN "1" \o text ELSE "0" \o text

\* the entry of queue_input: the snippet, with its history (id: its rank
\* among the submitted snippets; src, multiline: what it was built from)
Request(id, text, multiline) ==
    [id |-> id, text |-> Snippet(text, multiline),
     src |-> text, multiline |-> multiline]

\* execute_python_code on a queue_input of capacity 1: put waits for room
execute_python_code_bounded(text, multiline) ==
    /\ Len(queue_input) < 1
    /\ queue_input' = Append(queue_input, Request(nsub + 1, text, multiline))
    /\ nsub' = nsub + 1
    /\ main_id' = nsub + 1

execute_python_code(text, multiline) ==
    /\ queue_input' = Append(queue_input, Request(nsub + 1, text, multiline))
    /\ nsub' = nsub + 1
    /\ main_id' = nsub + 1

\* view.run_command("insert", {"characters": chars})
Insert(v, who, id, chars) ==
    Append(v, [from |-> who, id |-> id, characters |-> chars])

\* PycalcCommand.run, the try block: text is the line up to the cursor
PycalcCommand(text) ==
    /\ main_pc = "idle"
    /\ ncmd < MaxCmd
    /\ ncmd' = ncmd + 1
    /\ after_yes' = exited
    /\ init_worker
    /\ init_print_result
    /\ IF enabled
       THEN execute_python_code(text, FALSE)
       ELSE /\ main_id' = 0
            /\ UNCHANGED <<queue_input, nsub>>
    /\ code' = ""
    /\ main_pc' = "PycalcCommand"
    /\ UNCHANGED <<queue_output, enabled, line, result, pump_pc, queue_count,
                   view, panel, exited, timeouts, evaluated, delivered,
                   ptimer, last_error, sys_streams>>

\* a finally block that registers print_result through the guard of
\* init_print_result
PycalcCommandFinallyGuarded ==
    /\ main_pc = "PycalcCommand"
    /\ view' = Insert(view, "command", main_id, "\n")
    /\ scheduled' = IF print_result_running THEN scheduled ELSE scheduled + 1
    /\ main_pc' = "idle"
    /\ after_yes' = FALSE
    /\ UNCHANGED <<thread, queue_input, queue_output, print_result_running,
                   enabled, worker_pc, line, result, repl, pump_pc,
                   queue_count, code, main_id, panel, exited, nsub, ncmd,
                   timeouts, evaluated, delivered, wtimer, ptimer, started,
                   last_error, sys_streams>>

\* PycalcCommand.run, the finally block
PycalcCommandFinally ==
    /\ main_pc = "PycalcCommand"
    /\ view' = Insert(view, "command", main_id, "\n")
    /\ scheduled' = scheduled + 1
    /\ main_pc' = "idle"
    /\ after_yes' = FALSE
    /\ UNCHANGED <<thread, queue_input, queue_output, print_result_running,
                   enabled, worker_pc, line, result, repl, pump_pc,
                   queue_count, code, main_id, panel, exited, nsub, ncmd,
                   timeouts, evaluated, delivered, wtimer, ptimer, started,
                   last_error, sys_streams>>

\* PycalcSelectedCommand.run, the try block: text is the selected line
PycalcSelectedCommand(text) ==
    /\ main_pc = "idle"
    /\ ncmd < MaxCmd
    /\ ncmd' = ncmd + 1
    /\ after_yes' = exited
    /\ init_worker
    /\ init_print_result
    /\ code' = text
    /\ execute_python_code(text, TRUE)
    /\ main_pc' = "PycalcSelectedCommand"
    /\ UNCHANGED <<queue_output, enabled, line, result, pump_pc, queue_count,
                   view, panel, exited, timeouts, evaluated, delivered,
                   ptimer, last_error, sys_streams>>

\* PycalcSelectedCommand.run, the finally block
PycalcSelectedCommandFinally ==
    /\ main_pc = "PycalcSelectedCommand"
    /\ view' = IF EndsWithNewline(code)
               THEN view
               ELSE Insert(view, "command", main_id, "\n")
    /\ scheduled' = scheduled + 1
    /\ main_pc' = "idle"
    /\ after_yes' = FALSE
    /\ UNCHANGED <<thread, queue_input, queue_output, print_result_running,
                   enabled, worker_pc, line, result, repl, pump_pc,
                   queue_count, code, main_id, panel, exited, nsub, ncmd,
                   timeouts, evaluated, delivered, wtimer, ptimer, started,
                   last_error, sys_streams>>

\* PycalcToggleCommand.run
PycalcToggleCommand ==
    /\ main_pc = "idle"
    /\ enabled' = ~enabled
    /\ UNCHANGED <<thread, queue_input, queue_output, print_result_running,
                   worker_pc, line, result, repl, scheduled, pump_pc,
                   queue_count, main_pc, code, main_id, view, panel, exited,
                   nsub, ncmd, timeouts, evaluated, delivered, wtimer, ptimer,
                   started, last_error, sys_streams, after_yes>>

(***************************************************************************)
(* Worker thread: the loop of worker().                                    *)
(***************************************************************************)
\* a get that takes the newest snippet instead of the oldest
WorkerGetLifo ==
    /\ worker_pc = "get"
    /\ queue_input # <<>>
    /\ line' = queue_input[Len(queue_input)]
    /\ queue_input' = SubSeq(queue_input, 1, Len(queue_input) - 1)
    /\ worker_pc' = "interact"
    /\ sys_streams' = redirect(sys_streams, queue_input[Len(queue_input)].text)
    /\ UNCHANGED <<thread, queue_output, print_result_running, enabled, result,
                   repl, scheduled, pump_pc, queue_count, main_pc, code,
                   main_id, view, panel, exited, nsub, ncmd, timeouts,
                   evaluated, delivered, wtimer, ptimer, started, last_error,
                   after_yes>>

\* line = queue_in.get(timeout=3) returns a snippet
WorkerGet ==
    /\ worker_pc = "get"
    /\ queue_input # <<>>
    /\ line' = Head(queue_input)
    /\ queue_input' = Tail(queue_input)
    /\ worker_pc' = "interact"
    /\ sys_streams' = redirect(sys_streams, Head(queue_input).text)
    /\ UNCHANGED <<thread, queue_output, print_result_running, enabled, result,
                   repl, scheduled, pump_pc, queue_count, main_pc, code,
                   main_id, view, panel, exited, nsub, ncmd, timeouts,
                   evaluated, delivered, wtimer, ptimer, started, last_error,
                   after_yes>>

\* queue_in.get raised Empty: except Empty publishes {}
WorkerTimedOut ==
    /\ result' = EmptyResult(0)
    /\ worker_pc' = "put"
    /\ UNCHANGED <<thread, queue_input, queue_output, print_result_running,
                   enabled, line, repl, scheduled, pump_pc, queue_count,
                   main_pc, code, main_id, view, panel, exited, nsub, ncmd,
                   timeouts, evaluated, delivered, wtimer, ptimer, started,
                   last_error, sys_streams, after_yes>>

\* the read timeout, whenever the queue stays empty long enough
WorkerEmpty ==
    /\ worker_pc = "get"
    /\ queue_input = <<>>
    /\ WorkerTimedOut

\* the read timeout, with the clock
WorkerEmptyTimed ==
    /\ worker_pc = "get"
    /\ queue_input = <<>>
    /\ wtimer >= WorkerTimeout
    /\ WorkerTimedOut

\* the result the loop publishes for the outcome of interact: except
\* Exception replaces it by {}
Published(r) == IF r.escaped THEN EmptyResult(r.result.id) ELSE r.result

\* the loop with "except Exception: pass": a fault publishes nothing
WorkerInteractSwallow ==
    /\ worker_pc = "interact"
    /\ \E r \in {interact(repl, line.id, line.text)} :
          /\ result' = Published(r)
          /\ repl' = r.console
          /\ last_error' = r.error
          /\ worker_pc' = IF r.escaped THEN "get" ELSE "put"
    /\ sys_streams' = restore(sys_streams)
    /\ evaluated' = Append(evaluated, line.id)
    /\ UNCHANGED <<thread, queue_input, queue_output, print_result_running,
                   enabled, line, scheduled, pump_pc, queue_count, main_pc,
                   code, main_id, view, panel, exited, nsub, ncmd, timeouts,
                   delivered, wtimer, ptimer, started, after_yes>>

\* the loop without "except Exception": a fault ends the thread
WorkerInteractUncaught ==
    /\ worker_pc = "interact"
    /\ \E r \in {interact(repl, line.id, line.text)} :
          /\ result' = Published(r)
          /\ repl' = r.console
          /\ last_error' = r.error
          /\ worker_pc' = IF r.escaped THEN "none" ELSE "put"
    /\ sys_streams' = restore(sys_streams)
    /\ evaluated' = Append(evaluated, line.id)
    /\ UNCHANGED <<thread, queue_input, queue_output, print_result_running,
                   enabled, line, scheduled, pump_pc, queue_count, main_pc,
                   code, main_id, view, panel, exited, nsub, ncmd, timeouts,
                   delivered, wtimer, ptimer, started, after_yes>>

\* an evaluation that leaves the streams redirected when the snippet raised
WorkerInteractRedirected ==
    /\ worker_pc = "interact"
    /\ \E r \in {interact(repl, line.id, line.text)} :
          /\ result' = Published(r)
          /\ repl' = r.console
          /\ last_error' = r.error
          /\ sys_streams' = IF r.error THEN sys_streams
                            ELSE restore(sys_streams)
    /\ evaluated' = Append(evaluated, line.id)
    /\ worker_pc' = "put"
    /\ UNCHANGED <<thread, queue_input, queue_output, print_result_running,
                   enabled, line, scheduled, pump_pc, queue_count, main_pc,
                   code, main_id, view, panel, exited, nsub, ncmd, timeouts,
                   delivered, wtimer, ptimer, started, after_yes>>

\* result = interact(repl, line); an evaluation takes as long as it takes
WorkerInteract ==
    /\ worker_pc = "interact"
    /\ \E r \in {interact(repl, line.id, line.text)} :
          /\ result' = Published(r)
          /\ repl' = r.console
          /\ last_error' = r.error
    /\ sys_streams' = restore(sys_streams)
    /\ evaluated' = Append(evaluated, line.id)
    /\ worker_pc' = "put"
    /\ UNCHANGED <<thread, queue_input, queue_output, print_result_running,
                   enabled, line, scheduled, pump_pc, queue_count, main_pc,
                   code, main_id, view, panel, exited, nsub, ncmd, timeouts,
                   delivered, wtimer, ptimer, started, after_yes>>

\* a put on a queue without capacity: never blocks
WorkerPutUnbounded ==
    /\ worker_pc = "put"
    /\ queue_output' = Append(queue_output, result)
    /\ worker_pc' = "get"
    /\ wtimer' = 0
    /\ UNCHANGED <<thread, queue_input, print_result_running, enabled, line,
                   result, repl, scheduled, pump_pc, queue_count, main_pc,
                   code, main_id, view, panel, exited, nsub, ncmd, timeouts,
                   evaluated, delivered, ptimer, started, last_error,
                   sys_streams, after_yes>>

\* queue_out.put(result): blocks while the queue is full
WorkerPut ==
    /\ worker_pc = "put"
    /\ Len(queue_output) < MaxSize
    /\ queue_output' = Append(queue_output, result)
    /\ worker_pc' = "get"
    /\ wtimer' = 0
    /\ UNCHANGED <<thread, queue_input, print_result_running, enabled, line,
                   result, repl, scheduled, pump_pc, queue_count, main_pc,
                   code, main_id, view, panel, exited, nsub, ncmd, timeouts,
                   evaluated, delivered, ptimer, started, last_error,
                   sys_streams, after_yes>>

(***************************************************************************)
(* Async thread: print_result, one callback at a time.                     *)
(***************************************************************************)
\* a registered callback starts: queue_count = 0, then queue_output.get
PrintResultStart ==
    /\ pump_pc = "idle"
    /\ scheduled > 0
    /\ scheduled' = scheduled - 1
    /\ queue_count' = 0
    /\ pump_pc' = "get"
    /\ ptimer' = 0
    /\ UNCHANGED <<thread, queue_input, queue_output, print_result_running,
                   enabled, worker_pc, line, result, repl, main_pc, code,
                   main_id, view, panel, exited, nsub, ncmd, timeouts,
                   evaluated, delivered, wtimer, started, last_error,
                   sys_streams, after_yes>>

\* show_info without its "if not message: return"
show_info_unguarded(p, id, message) ==
    Append(p, [id |-> id, characters |-> message])

\* show_info(message)
show_info(p, id, message) ==
    IF message = "" THEN p ELSE Append(p, [id |-> id, characters |-> message])

\* print_result with a bare "return" at line 141-142: a placeholder ends
\* the chain of callbacks
PrintResultGetReturn ==
    /\ pump_pc = "get"
    /\ queue_output # <<>>
    /\ LET r == Head(queue_output)
       IN /\ queue_output' = Tail(queue_output)
          /\ queue_count' = queue_count + 1
          /\ delivered' = IF r.id = 0
                          THEN delivered
                          ELSE Append(delivered, r.id)
          /\ IF r.empty
             THEN UNCHANGED <<view, panel>>
             ELSE /\ view' = IF r.stdout # ""
                             THEN Insert(view, "print_result", r.id, r.stdout)
                             ELSE view
                  /\ panel' = show_info(panel, r.id, r.stderr)
    /\ scheduled' = IF Head(queue_output).empty
                    THEN scheduled
                    ELSE scheduled + 1
    /\ pump_pc' = "idle"
    /\ timeouts' = 0
    /\ UNCHANGED <<thread, queue_input, print_result_running, enabled,
                   worker_pc, line, result, repl, main_pc, code, main_id,
                   exited, nsub, ncmd, evaluated, wtimer, ptimer, started,
                   last_error, sys_streams, after_yes>>

\* queue_output.get returned a result: the rest of the try block
PrintResultGet ==
    /\ pump_pc = "get"
    /\ queue_output # <<>>
    /\ LET r == Head(queue_output)
       IN /\ queue_output' = Tail(queue_output)
          /\ queue_count' = queue_count + 1
          /\ delivered' = IF r.id = 0
                          THEN delivered
                          ELSE Append(delivered, r.id)
          /\ IF r.empty
             THEN UNCHANGED <<view, panel>>
             ELSE /\ view' = IF r.stdout # ""
                             THEN Insert(view, "print_result", r.id, r.stdout)
                             ELSE view
                  /\ panel' = show_info(panel, r.id, r.stderr)
    /\ scheduled' = scheduled + 1
    /\ pump_pc' = "idle"
    /\ timeouts' = 0
    /\ UNCHANGED <<thread, queue_input, print_result_running, enabled,
                   worker_pc, line, result, repl, main_pc, code, main_id,
                   exited, nsub, ncmd, evaluated, wtimer, ptimer, started,
                   last_error, sys_streams, after_yes>>

\* queue_output.get raised Empty: the except block up to the dialog
PrintResultTimedOut ==
    /\ timeouts' = IF timeouts < MaxTimeouts THEN timeouts + 1 ELSE timeouts
    /\ IF queue_count # 0
       THEN /\ scheduled' = scheduled + 1
            /\ pump_pc' = "idle"
       ELSE /\ pump_pc' = "dialog"
            /\ UNCHANGED scheduled
    /\ UNCHANGED <<thread, queue_input, queue_output, print_result_running,
                   enabled, worker_pc, line, result, repl, queue_count,
                   main_pc, code, main_id, view, panel, exited, nsub, ncmd,
                   evaluated, delivered, wtimer, ptimer, started, last_error,
                   sys_streams, after_yes>>

\* the dequeue timeout, whenever the queue stays empty long enough
PrintResultEmpty ==
    /\ pump_pc = "get"
    /\ queue_output = <<>>
    /\ PrintResultTimedOut

\* the dequeue timeout, with the clock
PrintResultEmptyTimed ==
    /\ pump_pc = "get"
    /\ queue_output = <<>>
    /\ ptimer >= PumpTimeout
    /\ PrintResultTimedOut

\* ok_cancel_dialog returned True: sys.exit() ends the callback
DialogYes ==
    /\ pump_pc = "dialog"
    /\ exited' = TRUE
    /\ pump_pc' = "idle"
    /\ UNCHANGED <<thread, queue_input, queue_output, print_result_running,
                   enabled, worker_pc, line, result, repl, scheduled,
                   queue_count, main_pc, code, main_id, view, panel, nsub,
                   ncmd, timeouts, evaluated, delivered, wtimer, ptimer,
                   started, last_error, sys_streams, after_yes>>

\* ok_cancel_dialog returned False
DialogNo ==
    /\ pump_pc = "dialog"
    /\ scheduled' = scheduled + 1
    /\ pump_pc' = "idle"
    /\ UNCHANGED <<thread, queue_input, queue_output, print_result_running,
                   enabled, worker_pc, line, result, repl, queue_count,
                   main_pc, code, main_id, view, panel, exited, nsub, ncmd,
                   timeouts, evaluated, delivered, wtimer, ptimer, started,
                   last_error, sys_streams, after_yes>>

(***************************************************************************)
(* Time.  One unit is a second: the 10 ms delay of set_timeout_async, a    *)
(* queue operation that can proceed and the end of a command take no time; *)
(* an evaluation and the user's answer to the dialog take any time.        *)
(***************************************************************************)
Urgent ==
    \/ main_pc # "idle"
    \/ worker_pc = "get" /\ (queue_input # <<>> \/ wtimer >= WorkerTimeout)
    \/ worker_pc = "put" /\ Len(queue_output) < MaxSize
    \/ pump_pc = "idle" /\ scheduled > 0
    \/ pump_pc = "get" /\ (queue_output # <<>> \/ ptimer >= PumpTimeout)

Tick ==
    /\ ~Urgent
    /\ worker_pc = "get" \/ pump_pc = "get"
    /\ wtimer' = IF worker_pc = "get" THEN wtimer + 1 ELSE wtimer
    /\ ptimer' = IF pump_pc = "get" THEN ptimer + 1 ELSE ptimer
    /\ UNCHANGED <<thread, queue_input, queue_output, print_result_running,
                   enabled, worker_pc, line, result, repl, scheduled, pump_pc,
                   queue_count, main_pc, code, main_id, view, panel, exited,
                   nsub, ncmd, timeouts, evaluated, delivered, started,
                   last_error, sys_streams, after_yes>>

\* the commands, invoked at most MaxCmdFair times
PycalcCommandFair(text) == ncmd < MaxCmdFair /\ PycalcCommand(text)

PycalcSelectedCommandFair(text) ==
    ncmd < MaxCmdFair /\ PycalcSelectedCommand(text)

(***************************************************************************)
(* Specifications.                                                         *)
(***************************************************************************)
\* the main thread: the user invokes the commands on texts of the set texts
Commands(texts) ==
    \/ \E text \in texts : PycalcCommand(text)
    \/ PycalcCommandFinally
    \/ \E text \in texts : PycalcSelectedCommand(text)
    \/ PycalcSelectedCommandFinally
    \/ PycalcToggleCommand

\* the worker thread and the async thread; a timeout may expire whenever
\* its queue is empty
Threads ==
    \/ WorkerGet
    \/ WorkerEmpty
    \/ WorkerInteract
    \/ WorkerPut
    \/ PrintResultStart
    \/ PrintResultGet
    \/ PrintResultEmpty
    \/ DialogYes
    \/ DialogNo

\* the same threads with the clock: a timeout expires when its time is up
ThreadsTimed ==
    \/ WorkerGet
    \/ WorkerEmptyTimed
    \/ WorkerInteract
    \/ WorkerPut
    \/ PrintResultStart
    \/ PrintResultGet
    \/ PrintResultEmptyTimed
    \/ DialogYes
    \/ DialogNo
    \/ Tick

\* The program on every text of Codes.
Next == Commands(Codes) \/ Threads

Spec == Init /\ [][Next]_vars

\* The program on the texts of QueueCodes: what the queues, the threads and
\* the callbacks do does not depend on the text beyond its outcome.
NextQueues == Commands(QueueCodes) \/ Threads

SpecQueues == Init /\ [][NextQueues]_vars

\* Scheduling: the worker thread and the async thread keep running, a
\* command reaches its finally block, a timeout on an empty queue expires,
\* the user answers the dialog, and every evaluation terminates
\* (WorkerInteract).
Fairness ==
    /\ WF_vars(PycalcCommandFinally)
    /\ WF_vars(PycalcSelectedCommandFinally)
    /\ WF_vars(WorkerGet)
    /\ WF_vars(WorkerEmpty)
    /\ WF_vars(WorkerInteract)
    /\ WF_vars(WorkerPut)
    /\ WF_vars(PrintResultStart)
    /\ WF_vars(PrintResultGet)
    /\ WF_vars(PrintResultEmpty)
    /\ WF_vars(DialogYes \/ DialogNo)

NextFair ==
    \/ \E text \in QueueCodes : PycalcCommandFair(text)
    \/ PycalcCommandFinally
    \/ \E text \in QueueCodes : PycalcSelectedCommandFair(text)
    \/ PycalcSelectedCommandFinally
    \/ PycalcToggleCommand
    \/ Threads

SpecFair == Init /\ [][NextFair]_vars /\ Fairness

\* The program with the clock.
NextTimed == Commands(TimedCodes) \/ ThreadsTimed

SpecTimed == Init /\ [][NextTimed]_vars

\* The program on the texts of EchoCodes.
NextEcho == Commands(EchoCodes) \/ Threads

SpecEcho == Init /\ [][NextEcho]_vars

\* The program on the session texts: the current line is one of
\* SessionLines, the selected line one of SessionBlocks.
NextSession ==
    \/ \E text \in SessionLines : PycalcCommand(text)
    \/ PycalcCommandFinally
    \/ \E text \in SessionBlocks : PycalcSelectedCommand(text)
    \/ PycalcSelectedCommandFinally
    \/ PycalcToggleCommand
    \/ Threads

SpecSession == Init /\ [][NextSession]_vars

\* The program on the texts of PendingCodes.
NextPending == Commands(PendingCodes) \/ Threads

SpecPending == Init /\ [][NextPending]_vars

\* The program on the texts of TagCodes.
NextTags == Commands(TagCodes) \/ Threads

SpecTags == Init /\ [][NextTags]_vars

\* The program on the texts of PlaceholderCodes.
NextPlaceholder == Commands(PlaceholderCodes) \/ Threads

SpecPlaceholder == Init /\ [][NextPlaceholder]_vars

\* The program on the text of PumpCodes, with the setting as it was loaded
\* (the user does not toggle it), under the scheduling of Fairness.
NextPump ==
    \/ \E text \in PumpCodes : PycalcCommand(text)
    \/ PycalcCommandFinally
    \/ \E text \in PumpCodes : PycalcSelectedCommand(text)
    \/ PycalcSelectedCommandFinally
    \/ Threads

SpecPump == Init /\ [][NextPump]_vars /\ Fairness

(***************************************************************************)
(* Properties.                                                             *)
(***************************************************************************)
InOrder(ids) == \A i \in DOMAIN ids : ids[i] = i

Occ(queue, id) == Cardinality({i \in DOMAIN queue : queue[i].id = id})

Count(ids, id) == Cardinality({i \in DOMAIN ids : ids[i] = id})

Evaluating(id) == worker_pc = "interact" /\ line.id = id

Publishing(id) == worker_pc = "put" /\ result.id = id

Held(id) == IF Evaluating(id) \/ Publishing(id) THEN 1 ELSE 0

Delivered(id) == Count(delivered, id) > 0

Pumps == scheduled + (IF pump_pc = "idle" THEN 0 ELSE 1)

\* C1: FIFO preservation.  The worker evaluates the snippets in submission
\* order (ids are given in submission order) and the pump dequeues their
\* results in that same order, whatever placeholders lie between them.
C1_Fifo == InOrder(evaluated) /\ InOrder(delivered)

C1_Witness ==
    /\ Len(delivered) >= 2
    /\ \E i \in DOMAIN queue_output : queue_output[i].id = 0

\* C2 as claimed: every submitted snippet is at every time in exactly one
\* place (input queue, worker, output queue, consumed by a pump), is
\* evaluated once, and its result is eventually consumed by a pump.
ExactlyOnce ==
    \A id \in 1..nsub :
        /\ Occ(queue_input, id) + Held(id) + Occ(queue_output, id)
              + Count(delivered, id) = 1
        /\ Count(evaluated, id) =
              IF Occ(queue_input, id) = 1 \/ Evaluating(id) THEN 0 ELSE 1

C2_Original ==
    /\ []ExactlyOnce
    /\ \A id \in 1..MaxCmdFair : [](id <= nsub => <>Delivered(id))

\* C2 amended: the same, except that the result need not be consumed (nor,
\* behind a full output queue, published) once the user has answered Yes to
\* the terminate dialog, which ends the pump that asked.
C2_ExactlyOnce ==
    /\ []ExactlyOnce
    /\ \A id \in 1..MaxCmdFair : [](id <= nsub => <>(Delivered(id) \/ exited))

C2_Witness == nsub >= 1 /\ Delivered(nsub) /\ ~exited

\* C3 as claimed: at most one print_result invocation is pending or running.
C3_OnePump == Pumps <= 1

\* C4: at most one worker thread is ever started, and so at most one
\* snippet is between its dequeue from queue_input and its publication.
InFlight == Cardinality({id \in 1..nsub : Held(id) = 1})

C4_OneWorker ==
    /\ started <= 1
    /\ thread <=> started = 1
    /\ worker_pc # "none" <=> started = 1
    /\ InFlight <= started

C4_Witness == ncmd >= 2 /\ started = 1 /\ InFlight = 1

\* C5: while no snippet has been submitted, the worker publishes a
\* placeholder within every read-timeout window, so the pump never waits
\* longer than that window, never times out and never shows the dialog.
C5_NoFalseStall ==
    nsub = 0 =>
        /\ wtimer <= WorkerTimeout
        /\ ptimer <= WorkerTimeout
        /\ ptimer < PumpTimeout
        /\ timeouts = 0
        /\ pump_pc # "dialog"

C5_Witness ==
    /\ nsub = 0
    /\ pump_pc = "idle"
    /\ queue_count = 1
    /\ ptimer = WorkerTimeout

\* C6 as claimed: the dialog is shown only on the first dequeue timeout
\* since the last successful dequeue.
C6_PromptOnce == pump_pc = "dialog" => timeouts = 1

\* C7: backpressure.  queue_output never holds more than its capacity; a
\* worker that finds it full stays in its put; and the queue changes only
\* by the worker appending its result or the pump removing the head.
C7_Backpressure ==
    /\ [](Len(queue_output) <= MaxSize)
    /\ [][(worker_pc = "put" /\ Len(queue_output) = MaxSize)
             => (worker_pc' = "put" /\ result' = result)]_vars
    /\ [][\/ queue_output' = queue_output
          \/ /\ worker_pc = "put"
             /\ queue_output' = Append(queue_output, result)
          \/ /\ pump_pc = "get"
             /\ queue_output # <<>>
             /\ queue_output' = Tail(queue_output)]_vars

C7_Witness ==
    /\ worker_pc = "put"
    /\ Len(queue_output) = MaxSize
    /\ result.id # 0

\* C8 as claimed: the evaluation of a snippet that raises an error gives a
\* result with a non-empty stderr, the error stays inside interact, and the
\* snippet evaluated after it gets the result it gets from a console that
\* holds no pending input.
C8_ErrorContained ==
    [][(worker_pc = "interact" /\ worker_pc' = "put") =>
          LET r == interact(repl, line.id, line.text)
          IN /\ r.error => (~r.escaped /\ result'.stderr # "")
             /\ last_error =>
                   result' = Published(interact(resetbuffer(repl),
                                                line.id, line.text))]_vars

\* C9: the worker loop has no terminal state.  Once started the worker is
\* waiting, evaluating or publishing; it leaves its wait with a snippet to
\* evaluate or, on a read timeout, with one placeholder to publish; it
\* leaves an evaluation with a result to publish, the empty one after a
\* fault; and it leaves a publication, having put exactly that result, to
\* wait again.
C9_NoTerminalState ==
    /\ [](thread => worker_pc \in {"get", "interact", "put"})
    /\ [][(worker_pc = "get" /\ worker_pc' # "get") =>
             \/ queue_input # <<>> /\ worker_pc' = "interact"
             \/ /\ queue_input = <<>>
                /\ worker_pc' = "put"
                /\ result' = EmptyResult(0)]_vars
    /\ [][(worker_pc = "interact" /\ worker_pc' # "interact") =>
             /\ worker_pc' = "put"
             /\ interact(repl, line.id, line.text).escaped
                   => result' = EmptyResult(line.id)]_vars
    /\ [][(worker_pc = "put" /\ worker_pc' # "put") =>
             /\ worker_pc' = "get"
             /\ queue_output' = Append(queue_output, result)]_vars

C9_Witness ==
    /\ worker_pc = "get"
    /\ \E i \in DOMAIN queue_output :
          queue_output[i].empty /\ queue_output[i].id # 0
    /\ \E i \in DOMAIN queue_output : queue_output[i] = EmptyResult(0)

\* C10: submit is non-blocking.  Whatever the worker and the pump are
\* doing and however many snippets are queued, a command can submit its
\* snippet, and a command that has submitted can finish.
C10_SubmitNonBlocking ==
    /\ (main_pc = "idle" /\ ncmd < MaxCmd) =>
          \A text \in QueueCodes :
              /\ ENABLED PycalcSelectedCommand(text)
              /\ ENABLED PycalcCommand(text)
    /\ main_pc = "PycalcCommand" => ENABLED PycalcCommandFinally
    /\ main_pc = "PycalcSelectedCommand" => ENABLED PycalcSelectedCommandFinally

C10_Witness ==
    /\ main_pc = "idle"
    /\ ncmd < MaxCmd
    /\ nsub >= 1
    /\ worker_pc = "put"
    /\ Len(queue_output) = MaxSize

\* the evaluation of the snippet in line ends and interact returns a result
Interacted == worker_pc = "interact" /\ worker_pc' = "put" /\ ~result'.empty

\* C11 as claimed: the stdout interact reports is empty exactly when the
\* captured stdout is the submitted text followed by one newline or is
\* empty, and is the captured stdout otherwise.
C11_Original ==
    [][Interacted =>
          LET captured == capture(repl, line.text).stdout
          IN /\ result'.stdout = "" <=>
                   (captured = line.src \o "\n" \/ captured = "")
             /\ result'.stdout # "" => result'.stdout = captured]_vars

\* C11 amended: the stdout interact reports is empty exactly when the
\* captured stdout is the submitted text, stripped of the white space
\* around it, followed by one newline, or is empty; it is the captured
\* stdout otherwise.
C11_EchoSuppression ==
    [][Interacted =>
          LET captured == capture(repl, line.text).stdout
          IN /\ result'.stdout = "" <=>
                   (captured = strip(line.src) \o "\n" \/ captured = "")
             /\ result'.stdout # "" => result'.stdout = captured]_vars

\* "1 " was evaluated in line mode: "1\n" was captured, nothing is reported
C11_Witness ==
    /\ worker_pc = "put"
    /\ line.src = "1 "
    /\ ~line.multiline
    /\ capture(repl, line.text).stdout = "1\n"
    /\ ~result.empty
    /\ result.stdout = ""

\* the evaluation of the snippet in line ends
Evaluated == worker_pc = "interact" /\ worker_pc' # "interact"

\* C12: namespace persistence.  One session is created, when the worker
\* starts, and only an evaluation changes it; no evaluation of either mode
\* removes a name from its namespace; so once a block-mode snippet has
\* defined x, every later snippet that reads x finds it, and a line-mode
\* one prints its value.
C12_NamespacePersistence ==
    /\ [](started <= 1)
    /\ [][repl' # repl => Evaluated]_vars
    /\ [][repl.locals \subseteq repl'.locals]_vars
    /\ [][(Evaluated /\ line.multiline /\ line.src = "x=1")
             => "x" \in repl'.locals]_vars
    /\ [][(Evaluated /\ line.src = "x" /\ "x" \in repl.locals) =>
             /\ result'.stderr = ""
             /\ result'.stdout = IF line.multiline THEN "" ELSE "1\n"]_vars

\* the second snippet, x in line mode, printed the value that only a
\* block-mode snippet can have given it
C12_Witness ==
    /\ worker_pc = "put"
    /\ evaluated = <<1, 2>>
    /\ line.src = "x"
    /\ ~line.multiline
    /\ result.stdout = "1\n"
    /\ "x" \in repl.locals

\* C13: every print_result invocation ends in one of four ways.  A dequeue,
\* of a result or of a placeholder, registers one successor; a dequeue
\* timeout registers none and asks the user; the answer No registers one
\* successor, the answer Yes calls sys.exit() and registers none.
C13_Reschedule ==
    /\ [][(pump_pc = "get" /\ pump_pc' # "get") =>
             \/ /\ queue_output # <<>>
                /\ queue_output' = Tail(queue_output)
                /\ pump_pc' = "idle"
                /\ scheduled' = scheduled + 1
             \/ /\ queue_output = <<>>
                /\ pump_pc' = "dialog"
                /\ scheduled' = scheduled]_vars
    /\ [][(pump_pc = "dialog" /\ pump_pc' # "dialog") =>
             /\ pump_pc' = "idle"
             /\ \/ exited' /\ scheduled' = scheduled
                \/ exited' = exited /\ scheduled' = scheduled + 1]_vars

\* a result was dequeued and its successors ran until every chain of
\* callbacks had timed out and been answered Yes
C13_Witness ==
    /\ exited
    /\ Pumps = 0
    /\ main_pc = "idle"
    /\ Len(delivered) >= 1
    /\ Len(view) >= 2

\* a result leaves queue_output
Dequeued == Len(queue_output') < Len(queue_output)

\* C14: the effects of a pump invocation.  Only a pump waiting in its get
\* takes a result off queue_output, the head, and that ends the
\* invocation; a placeholder changes neither the view nor the panel; a
\* result inserts its stdout if that is not empty and appends its stderr to
\* the panel if that is not empty, and changes nothing else of them; and
\* the panel changes in no other step.
C14_PumpEffects ==
    /\ [](queue_count <= 1)
    /\ [](pump_pc = "get" => queue_count = 0)
    /\ [][Dequeued =>
             LET r == Head(queue_output)
                 stdout == [from |-> "print_result", id |-> r.id,
                            characters |-> r.stdout]
                 stderr == [id |-> r.id, characters |-> r.stderr]
             IN /\ pump_pc = "get"
                /\ pump_pc' = "idle"
                /\ queue_count' = 1
                /\ queue_output' = Tail(queue_output)
                /\ r.empty => (view' = view /\ panel' = panel)
                /\ (~r.empty /\ r.stdout = "") => view' = view
                /\ (~r.empty /\ r.stdout # "") => view' = Append(view, stdout)
                /\ (~r.empty /\ r.stderr = "") => panel' = panel
                /\ (~r.empty /\ r.stderr # "")
                      => panel' = Append(panel, stderr)]_vars
    /\ [][panel' # panel => Dequeued]_vars

\* the pump has applied a result with neither stdout nor stderr, then one
\* with a stdout
C14_Witness ==
    /\ pump_pc = "idle"
    /\ delivered = <<1, 2>>
    /\ panel = <<>>
    /\ \E i \in DOMAIN view :
          view[i] = [from |-> "print_result", id |-> 2, characters |-> "1\n"]
    /\ \A i \in DOMAIN view : view[i].id # 1 \/ view[i].from = "command"

\* the line-mode snippet src leaves the statement in the buffer incomplete
Pending(console, src) ==
    CompileSingle(Append(console.buffer, src)) = "incomplete"

\* C15: the pending buffer.  A block-mode evaluation is the execution of
\* its whole text by a session whose pending buffer has been emptied, and
\* leaves that buffer empty.  A line-mode snippet that does not complete a
\* statement is added to the pending buffer and nothing is executed: the
\* namespace is unchanged and nothing is written.  The name that the
\* pending line "x=(" binds is bound only when a line-mode "1)" completes
\* the pending statement.
C15_PendingBuffer ==
    /\ [][(Evaluated /\ line.multiline) =>
             /\ repl' = runcode(resetbuffer(repl), line.src).console
             /\ repl'.buffer = <<>>]_vars
    /\ [][(Evaluated /\ ~line.multiline /\ Pending(repl, line.src)) =>
             /\ repl'.buffer = Append(repl.buffer, line.src)
             /\ repl'.locals = repl.locals
             /\ result' = [id |-> line.id, empty |-> FALSE,
                           stdout |-> "", stderr |-> ""]]_vars
    /\ [][("x" \notin repl.locals /\ "x" \in repl'.locals) =>
             /\ Evaluated
             /\ ~line.multiline
             /\ repl.buffer = <<"x=(">>
             /\ line.src = "1)"]_vars

\* the second snippet, "1)" in line mode, completed the pending "x=("
C15_Witness ==
    /\ worker_pc = "put"
    /\ evaluated = <<1, 2>>
    /\ line.src = "1)"
    /\ ~line.multiline
    /\ repl = [buffer |-> <<>>, locals |-> NewConsole.locals \cup {"x"}]
    /\ result.stderr = ""

\* the snippet of a request is its source behind exactly one character,
\* "1" for block mode and "0" for line mode
Tagged(request) ==
    /\ Len(request.text) = Len(request.src) + 1
    /\ SubSeq(request.text, 1, 1) = IF request.multiline THEN "1" ELSE "0"
    /\ SubSeq(request.text, 2, Len(request.text)) = request.src

\* C16: the mode tag.  Every snippet on queue_input, and the one the worker
\* took, is the submitted text behind exactly one flag character that tells
\* its mode; and the evaluation of a snippet captures and leaves in the
\* session what block evaluation of the submitted text does if it was
\* submitted in block mode, and what line evaluation of it does otherwise.
C16_ModeTag ==
    /\ [](\A i \in DOMAIN queue_input : Tagged(queue_input[i]))
    /\ [](line.id # 0 => Tagged(line))
    /\ [][Evaluated =>
             LET r == capture(repl, line.text)
                 e == IF line.multiline
                      THEN runcode(resetbuffer(repl), line.src)
                      ELSE push(repl, line.src)
             IN /\ r.stdout = e.stdout
                /\ r.error = e.error
                /\ r.console = e.console
                /\ repl' = e.console]_vars

\* "1" was submitted in block mode and evaluated, where line mode would
\* have captured its value, and the empty text waits in line mode
C16_Witness ==
    /\ worker_pc = "put"
    /\ line.text = "11"
    /\ line.multiline
    /\ push(repl, line.src).stdout = "1\n"
    /\ capture(repl, line.text).stdout = ""
    /\ \E i \in DOMAIN queue_input :
          queue_input[i].text = "0" /\ queue_input[i].src = ""

\* C17: the streams are redirected only during an evaluation.  Whenever the
\* worker is not evaluating a snippet (it waits on queue_input, publishes, or
\* has not started) sys.stdout and sys.stderr are the original streams; the
\* streams change only on entering or leaving an evaluation; and every
\* evaluation, one that raised an error included, leaves the originals in
\* place.
C17_StreamsRestored ==
    /\ [](worker_pc # "interact" => sys_streams = Original)
    /\ [][sys_streams' # sys_streams =>
             (worker_pc = "interact" \/ worker_pc' = "interact")]_vars
    /\ [][Evaluated => sys_streams' = Original]_vars

\* the worker publishes the result of a snippet that raised SystemExit, and
\* the streams are the originals
C17_Witness ==
    /\ worker_pc = "put"
    /\ line.src = "raise SystemExit"
    /\ last_error
    /\ result.id = line.id
    /\ result.stderr # ""
    /\ sys_streams = Original

\* C18: the newline first.  Whenever the stdout of a snippet is in the
\* view, the newline of the command that submitted the snippet was inserted
\* before it.
C18_NewlineFirst ==
    \A i \in DOMAIN view :
        view[i].from = "print_result" =>
            \E j \in 1..(i - 1) :
                view[j].from = "command" /\ view[j].id = view[i].id

\* the worker puts a result on queue_output
Enqueued == Len(queue_output') > Len(queue_output)

\* C19 as stated: the result published for a snippet (being put, or on
\* queue_output) is never the empty placeholder.
C19_Original ==
    /\ (worker_pc = "put" /\ result.id # 0) => ~result.empty
    /\ \A i \in DOMAIN queue_output :
          queue_output[i].id # 0 => ~queue_output[i].empty

\* C19: no placeholder for a snippet but on a fault.  Every snippet on
\* queue_input and the one the worker took is non-empty, so interact never
\* takes its empty-input return and, when it returns, returns a result with
\* stdout and stderr; the worker publishes an empty result for a snippet
\* exactly when an Exception escaped interact; `result` becomes empty only on
\* a read timeout or such a fault; queue_output receives only `result`; and
\* the pump discards only what it dequeued.
C19_NoPlaceholder ==
    /\ [](\A i \in DOMAIN queue_input : queue_input[i].text # "")
    /\ [](worker_pc = "interact" => line.text # "")
    /\ [][Evaluated =>
             LET r == interact(repl, line.id, line.text)
             IN /\ ~r.result.empty
                /\ result'.id = line.id
                /\ result'.empty <=> r.escaped
                /\ ~r.escaped => result' = r.result]_vars
    /\ [][(result' # result /\ result'.empty) =>
             \/ worker_pc = "get" /\ queue_input = <<>> /\ result'.id = 0
             \/ Evaluated /\ interact(repl, line.id, line.text).escaped]_vars
    /\ [][Enqueued => queue_output' = Append(queue_output, result)]_vars
    /\ [][(Dequeued /\ Head(queue_output).id # 0) =>
             delivered' = Append(delivered, Head(queue_output).id)]_vars

\* the empty text was evaluated and its result, with both fields, is being
\* published, while the empty result of a snippet that faulted is on
\* queue_output
C19_Witness ==
    /\ worker_pc = "put"
    /\ line.src = ""
    /\ result.id = line.id
    /\ ~result.empty
    /\ \E i \in DOMAIN queue_output :
          queue_output[i].empty /\ queue_output[i].id # 0

\* a command returns
CommandEnds == main_pc # "idle" /\ main_pc' = "idle"

\* the command that began after a Yes has submitted snippet id and has not
\* returned yet
AfterYes(id) == main_pc # "idle" /\ after_yes /\ main_id = id

\* C20 as stated: the result of a snippet submitted after a Yes is
\* eventually dequeued by a pump.
C20_Original ==
    \A id \in 1..MaxCmd : [](AfterYes(id) => <>Delivered(id))

\* C20: a pump after every command.  Every command, when it returns,
\* registers one more print_result whatever print_result_running is, so a
\* pump is pending or running right after it; the flag, once set, stays set;
\* a chain of pumps ends only when the user answers Yes; and the result of
\* a snippet submitted after a Yes is eventually dequeued by a pump, unless
\* the user answers Yes again and no pump is left after the command.
C20_PumpAfterYes ==
    /\ [][CommandEnds => (scheduled' = scheduled + 1 /\ Pumps' >= 1)]_vars
    /\ [][print_result_running => print_result_running']_vars
    /\ [][Pumps' < Pumps => (pump_pc = "dialog" /\ exited')]_vars
    /\ \A id \in 1..MaxCmd :
          [](AfterYes(id) =>
               <>(Delivered(id) \/ (main_pc = "idle" /\ Pumps = 0)))

\* every pump of the first command has ended on a Yes, the flag is still
\* set, and the second command, begun after that, has submitted its snippet:
\* no pump is left until its finally block registers one
C20_Witness ==
    /\ AfterYes(2)
    /\ exited
    /\ print_result_running
    /\ Pumps = 0
    /\ ~Delivered(2)

====
